---- MODULE Spec2Model ----
(***************************************************************************)
(* gkligo: writeMOCFromGWMap.py.                                           *)
(*                                                                         *)
(* getContourArea and writeMOC rank the cells of a multi-order sky map by  *)
(* probability density, accumulate the probability mass and cut the ranked *)
(* list at the index numpy's searchsorted returns for contour * total      *)
(* mass.  writeMOC writes the cut list as a one-column FITS table and then *)
(* rewrites the file with the header field TFORM1 set to '1K'.  writeFiles *)
(* runs writeMOC once per requested contour.                               *)
(*                                                                         *)
(* Arithmetic is exact: a confidence is the fraction num/den that          *)
(* float(contour)/100.0 denotes, a pixel area is an integer number of      *)
(* finest-order pixel areas and a returned area is an integer number of    *)
(* (1/pi) square degrees.  Floating-point rounding is not modelled.        *)
(***************************************************************************)
EXTENDS Integers, Sequences, FiniteSets, TLC

VARIABLES
    skymapFile,   \* rows of the input FITS table, in file order
    tieOrder,     \* how this build's argsort orders rows of equal density
    contours,     \* options.contours.split(',')
    k,            \* position of the for loop of writeFiles in contours
    pc,           \* the statement about to execute
    c,            \* writeMOC's argument contour, a fraction num/den
    skymap,       \* writeMOC's local table skymap
    cumprob,      \* writeMOC's local cumprob
    i,            \* writeMOC's local i
    fs,           \* the destination files, one per contour string
    before,       \* the destination's content when writeMOC was called
    h,            \* the HDU list fits.open returned
    handles,      \* file handles open and not yet closed
    failedAt,     \* the statement whose exception left writeFiles, or "none"
    logged,       \* contours reported by logger.error
    area          \* the last result of getContourArea

vars == <<skymapFile, tieOrder, contours, k, pc, c, skymap, cumprob, i, fs,
          before, h, handles, failedAt, logged, area>>

----------------------------------------------------------------------------
(* Bounds of the model. *)

\* cells in an input map
MaxCells == 3
\* largest PROBDENSITY value of a cell
MaxDens == 2
\* contours in one --contours list
MaxContours == 2

----------------------------------------------------------------------------
(* Input domains. *)

\* NUNIQ indices the maps are built from: 4 and 5 are order 0, 16 and 17 order 1.
UniqPool == <<4, 16, 5, 17>>

Uniqs == {UniqPool[n] : n \in 1..MaxCells}

Cell(u, d) == [UNIQ |-> u, PROBDENSITY |-> d]

Cells == {Cell(u, d) : u \in Uniqs, d \in 0..MaxDens}

RECURSIVE SeqsOver(_, _)
\* the sequences over S of length at most n
SeqsOver(S, n) ==
    IF n = 0 THEN {<<>>}
    ELSE LET shorter == SeqsOver(S, n - 1)
         IN  shorter \cup {Append(s, x) : s \in {t \in shorter : Len(t) = n - 1}, x \in S}

\* UNIQ values are unique across the rows of a map
Maps ==
    {m \in SeqsOver(Cells, MaxCells) :
        \A a, b \in 1..Len(m) : a # b => m[a].UNIQ # m[b].UNIQ}

\* the maps the batch runs read
BatchMaps ==
    { <<Cell(4, 1), Cell(5, 2)>>,
      <<Cell(16, 2), Cell(4, 1), Cell(5, 1)>>,
      <<Cell(4, 1), Cell(5, 4), Cell(6, 3), Cell(7, 2)>> }

\* what float(contour) returns for the contour strings of the model;
\* float raises ValueError for any other string
ContourValue ==
    [s \in {"0", "10", "50", "90", "100", "150"} |->
        CASE s = "0"   -> 0
          [] s = "10"  -> 10
          [] s = "50"  -> 50
          [] s = "90"  -> 90
          [] s = "100" -> 100
          [] s = "150" -> 150]

ContourStrings == DOMAIN ContourValue \cup {"abc"}

\* the contour strings of the batch runs: percentages in (0,100] and a string
\* that is no number
BatchContours == {"abc", "10", "50", "90", "100"}

ContourLists(strings, n) == SeqsOver(strings, n) \ {<<>>}

IsFloat(s) == s \in DOMAIN ContourValue

\* float(contour)/100.0
Fraction(s) == [num |-> ContourValue[s], den |-> 100]

\* stable argsort reversed puts equal densities in reverse file order; an
\* unstable argsort may leave them in file order
TieOrders == {"reversed", "kept"}

----------------------------------------------------------------------------
(* Files. *)

Absent == [state |-> "absent", rows |-> <<>>, tform |-> ""]

Written(rows, tform) == [state |-> "valid", rows |-> rows, tform |-> tform]

NoHDU == [rows |-> <<>>, tform |-> ""]

NoArea == [called |-> FALSE, c |-> [num |-> 0, den |-> 100], val |-> 0]

----------------------------------------------------------------------------
(* The computation shared by getContourArea and writeMOC. *)

RECURSIVE Order(_)
\* ligo.skymap's uniq2order: floor(log4(uniq / 4))
Order(uniq) == IF uniq < 16 THEN 0 ELSE 1 + Order(uniq \div 4)

RECURSIVE Pow4(_)
Pow4(n) == IF n = 0 THEN 1 ELSE 4 * Pow4(n - 1)

\* the finest resolution order among the cells of the model
FinestOrder == Order(UniqPool[Len(UniqPool)])

\* uniq2pixarea: 4 pi / (12 * 4^order) steradian, counted in areas of a pixel
\* of the finest order, (pi / 3) / 4^FinestOrder steradian
PixArea(uniq) == Pow4(FinestOrder - Order(uniq))

RECURSIVE InsertAsc(_, _, _)
\* x put into the ascending list s, behind (afterEqual) or before the rows of
\* its own density
InsertAsc(s, x, afterEqual) ==
    IF s = <<>> THEN <<x>>
    ELSE IF \/ Head(s).PROBDENSITY < x.PROBDENSITY
            \/ (afterEqual /\ Head(s).PROBDENSITY = x.PROBDENSITY)
         THEN <<Head(s)>> \o InsertAsc(Tail(s), x, afterEqual)
         ELSE <<x>> \o s

RECURSIVE SortAsc(_, _)
\* np.argsort on the PROBDENSITY column, applied to the rows
SortAsc(rows, afterEqual) ==
    IF rows = <<>> THEN <<>>
    ELSE InsertAsc(SortAsc(SubSeq(rows, 1, Len(rows) - 1), afterEqual),
                   rows[Len(rows)], afterEqual)

Reverse(s) == [n \in 1..Len(s) |-> s[Len(s) + 1 - n]]

\* mutant of TableSort: the sort is skipped
TableSortSkipped(rows, tie) == rows

\* skymap.sort('PROBDENSITY', reverse=True): the ascending argsort, reversed
TableSort(rows, tie) == Reverse(SortAsc(rows, tie = "reversed"))

RECURSIVE Sum(_)
Sum(s) == IF s = <<>> THEN 0 ELSE s[Len(s)] + Sum(SubSeq(s, 1, Len(s) - 1))

\* np.cumsum
CumSum(s) == [n \in 1..Len(s) |-> Sum(SubSeq(s, 1, n))]

\* uniq2pixarea(skymap['UNIQ'])
PixelArea(rows) == [n \in 1..Len(rows) |-> PixArea(rows[n].UNIQ)]

\* pixel_area * skymap['PROBDENSITY']
Prob(rows) == [n \in 1..Len(rows) |-> PixArea(rows[n].UNIQ) * rows[n].PROBDENSITY]

RECURSIVE Bisect(_, _, _, _, _)
\* numpy's binary search, side='left', for the value num/den in a[lo+1..hi]
Bisect(a, num, den, lo, hi) ==
    IF lo >= hi THEN lo
    ELSE LET mid == lo + ((hi - lo) \div 2)
         IN  IF a[mid + 1] * den < num
             THEN Bisect(a, num, den, mid + 1, hi)
             ELSE Bisect(a, num, den, lo, mid)

\* a.searchsorted(num/den): the number of rows to keep
SearchSorted(a, num, den) == Bisect(a, num, den, 0, Len(a))

\* steradian to square degrees, (180/pi)^2: a pixel areas of the finest order
\* are a * 10800 / 4^FinestOrder times 1/pi square degrees
ToSqDeg(a) == a * (((180 * 180) \div 3) \div Pow4(FinestOrder))

\* mutant of ContourArea: the area of the rows from i on, pixel_area[i:]
ContourAreaFromIndex(rows, contour, tie) ==
    LET ranked == TableSort(rows, tie)
        pixel_area == PixelArea(ranked)
        prob == Prob(ranked)
        n == SearchSorted(CumSum(prob), contour.num * Sum(prob), contour.den)
    IN  ToSqDeg(Sum(SubSeq(pixel_area, n + 1, Len(pixel_area))))

\* getContourArea: the value returned for the rows read and the contour
ContourArea(rows, contour, tie) ==
    LET ranked == TableSort(rows, tie)
        pixel_area == PixelArea(ranked)
        prob == Prob(ranked)
        n == SearchSorted(CumSum(prob), contour.num * Sum(prob), contour.den)
    IN  ToSqDeg(Sum(SubSeq(pixel_area, 1, n)))

\* mutant of MocRows: the cut keeps the row at index i too, skymap[:i+1]
MocRowsThroughIndex(ranked, n) ==
    [j \in 1..(IF n < Len(ranked) THEN n + 1 ELSE n) |-> ranked[j].UNIQ]

\* skymap[:i]['UNIQ',]
MocRows(ranked, n) == [j \in 1..n |-> ranked[j].UNIQ]

----------------------------------------------------------------------------
(* The program. *)

\* options.directory + '/' + contour + '.moc' of the contour in hand
Dest == contours[k]

InitWith(maps, lists) ==
    /\ skymapFile \in maps
    /\ tieOrder \in TieOrders
    /\ contours \in lists
    /\ k = 1
    /\ pc = "loop"
    /\ c = Fraction("0")
    /\ skymap = <<>>
    /\ cumprob = <<>>
    /\ i = 0
    /\ fs = [s \in ContourStrings |-> Absent]
    /\ before = Absent
    /\ h = NoHDU
    /\ handles = {}
    /\ failedAt = "none"
    /\ logged = <<>>
    /\ area = NoArea

\* a batch of up to MaxContours contours on one of the batch maps
Init == InitWith(BatchMaps, ContourLists(BatchContours, MaxContours))

\* one contour on any map of up to MaxCells cells
InitCore == InitWith(Maps, ContourLists(ContourStrings, 1))

\* An exception of class exc raised by statement at inside the try block of
\* writeFiles: except ValueError logs the contour and the loop goes on; any
\* other exception leaves writeFiles.
Raise(exc, at) ==
    IF exc = "ValueError"
    THEN /\ logged' = Append(logged, contours[k])
         /\ k' = k + 1
         /\ pc' = "loop"
         /\ UNCHANGED failedAt
    ELSE /\ pc' = "aborted"
         /\ failedAt' = at
         /\ UNCHANGED <<logged, k>>

\* writeFiles, one turn of the for loop up to the call of writeMOC:
\* c = float(contour)/100.0 raises ValueError for a contour that is no number
ParseContour ==
    /\ pc = "loop"
    /\ k <= Len(contours)
    /\ IF IsFloat(contours[k])
       THEN /\ c' = Fraction(contours[k])
            /\ before' = fs[Dest]
            /\ pc' = "read"
            /\ UNCHANGED <<k, failedAt, logged>>
       ELSE /\ Raise("ValueError", "float")
            /\ UNCHANGED <<c, before>>
    /\ UNCHANGED <<skymapFile, tieOrder, contours, skymap, cumprob, i, fs, h,
                   handles, area>>

\* writeFiles returns when the list is exhausted
WriteFilesReturn ==
    /\ pc = "loop"
    /\ k > Len(contours)
    /\ pc' = "done"
    /\ UNCHANGED <<skymapFile, tieOrder, contours, k, c, skymap, cumprob, i, fs,
                   before, h, handles, failedAt, logged, area>>

\* writeMOC: Table.read(open(skymap, 'rb'), format='fits').  Table.read closes
\* the file object it is given; open or the read may raise OSError.
ReadInput(outcome) ==
    /\ pc = "read"
    /\ IF outcome = "ok"
       THEN /\ skymap' = skymapFile
            /\ pc' = "rank"
            /\ UNCHANGED <<k, failedAt, logged>>
       ELSE /\ Raise("OSError", "read")
            /\ UNCHANGED skymap
    /\ UNCHANGED <<skymapFile, tieOrder, contours, c, cumprob, i, fs, before, h,
                   handles, area>>

\* writeMOC: sort, pixel_area, prob, cumprob, sumprob, i
Rank ==
    /\ pc = "rank"
    /\ LET ranked == TableSort(skymap, tieOrder)
           prob == Prob(ranked)
           sumprob == Sum(prob)
       IN  /\ skymap' = ranked
           /\ cumprob' = CumSum(prob)
           /\ i' = SearchSorted(CumSum(prob), c.num * sumprob, c.den)
    /\ pc' = "write"
    /\ UNCHANGED <<skymapFile, tieOrder, contours, k, c, fs, before, h, handles,
                   failedAt, logged, area>>

\* writeMOC: skymap = skymap[:i]['UNIQ',] and skymap.write(outputMOCName,
\* format='fits', overwrite=True), which writes the column as TFORM1 = 'K'.
\* A failed write leaves the destination as it was, or removed when the
\* overwrite had already deleted the old file.
FirstWrite(outcome) ==
    /\ pc = "write"
    /\ skymap' = MocRows(skymap, i)
    /\ IF outcome = "ok"
       THEN /\ fs' = [fs EXCEPT ![Dest] = Written(MocRows(skymap, i), "K")]
            /\ pc' = "reopen"
            /\ UNCHANGED <<k, failedAt, logged>>
       ELSE /\ fs' = [fs EXCEPT ![Dest] = IF outcome = "removed" THEN Absent ELSE @]
            /\ Raise("OSError", "write")
    /\ UNCHANGED <<skymapFile, tieOrder, contours, c, cumprob, i, before, h,
                   handles, area>>

\* writeMOC: h = fits.open(outputMOCName)
Reopen(outcome) ==
    /\ pc = "reopen"
    /\ IF outcome = "ok"
       THEN /\ h' = [rows |-> fs[Dest].rows, tform |-> fs[Dest].tform]
            /\ handles' = handles \cup {"h"}
            /\ pc' = "correct"
            /\ UNCHANGED <<k, failedAt, logged>>
       ELSE /\ Raise("OSError", "reopen")
            /\ UNCHANGED <<h, handles>>
    /\ UNCHANGED <<skymapFile, tieOrder, contours, c, skymap, cumprob, i, fs,
                   before, area>>

\* mutant of PatchHeader: the header is left as fits.open read it
PatchHeaderSkipped(hdus) == hdus

\* header['TFORM1'] = '1K'
PatchHeader(hdus) == [hdus EXCEPT !.tform = "1K"]

\* writeMOC: the header patch, h.writeto(outputMOCName, overwrite=True) and
\* h.close().  h.close() is reached only when writeto returned.
Correct(outcome) ==
    /\ pc = "correct"
    /\ h' = PatchHeader(h)
    /\ IF outcome = "ok"
       THEN /\ fs' = [fs EXCEPT ![Dest] = Written(PatchHeader(h).rows, PatchHeader(h).tform)]
            /\ handles' = handles \ {"h"}
            /\ pc' = "written"
            /\ UNCHANGED <<k, failedAt, logged>>
       ELSE /\ fs' = [fs EXCEPT ![Dest] = IF outcome = "removed" THEN Absent ELSE @]
            /\ Raise("OSError", "correct")
            /\ UNCHANGED handles
    /\ UNCHANGED <<skymapFile, tieOrder, contours, c, skymap, cumprob, i, before,
                   area>>

\* writeMOC: logger.info('MOC file %s written') and the return to the loop
WriteMOCReturn ==
    /\ pc = "written"
    /\ pc' = "loop"
    /\ k' = k + 1
    /\ UNCHANGED <<skymapFile, tieOrder, contours, c, skymap, cumprob, i, fs,
                   before, h, handles, failedAt, logged, area>>

\* getContourArea(inputFilePointer, contour, logger), called once on the
\* input map when the batch is over
GetContourArea(contour) ==
    /\ pc = "done"
    /\ ~area.called
    /\ area' = [called |-> TRUE, c |-> contour,
                val |-> ContourArea(skymapFile, contour, tieOrder)]
    /\ UNCHANGED <<skymapFile, tieOrder, contours, k, pc, c, skymap, cumprob, i,
                   fs, before, h, handles, failedAt, logged>>

\* The I/O calls may fail.
Next ==
    \/ ParseContour
    \/ WriteFilesReturn
    \/ \E o \in {"ok", "fail"} : ReadInput(o)
    \/ Rank
    \/ \E o \in {"ok", "fail", "removed"} : FirstWrite(o)
    \/ \E o \in {"ok", "fail"} : Reopen(o)
    \/ \E o \in {"ok", "fail", "removed"} : Correct(o)
    \/ WriteMOCReturn

Spec == Init /\ [][Next]_vars

\* Every I/O call succeeds, and the area is queried after the batch.
NextCore ==
    \/ ParseContour
    \/ WriteFilesReturn
    \/ ReadInput("ok")
    \/ Rank
    \/ FirstWrite("ok")
    \/ Reopen("ok")
    \/ Correct("ok")
    \/ WriteMOCReturn
    \/ \E s \in DOMAIN ContourValue : GetContourArea(Fraction(s))

SpecCore == InitCore /\ [][NextCore]_vars

----------------------------------------------------------------------------
(* Properties. *)

InUnitInterval(f) == 0 < f.num /\ f.num <= f.den

\* writeMOC has passed the prefix search and is at or behind the first write
PastSearch == pc \in {"write", "reopen", "correct", "written"}

\* the first write has succeeded in the call in hand
PastFirstWrite == pc \in {"reopen", "correct", "written"}

RECURSIVE Perms(_)
\* the orderings of the rows in S
Perms(S) ==
    IF S = {} THEN {<<>>}
    ELSE UNION {{<<x>> \o p : p \in Perms(S \ {x})} : x \in S}

Range(s) == {s[n] : n \in 1..Len(s)}

NonDecreasing(a) == \A n \in 1..(Len(a) - 1) : a[n] <= a[n + 1]

\* C1: for a non-empty map with positive densities and a confidence in (0,1],
\* the rows writeMOC writes are the density-ranked prefix of the smallest
\* length whose cumulative mass is >= confidence * total mass: the written
\* prefix reaches the threshold and no shorter prefix does.
PrefixMinimality ==
    ( /\ PastFirstWrite
      /\ skymapFile # <<>>
      /\ \A n \in 1..Len(skymapFile) : skymapFile[n].PROBDENSITY > 0
      /\ InUnitInterval(c) )
    => LET ranked == TableSort(skymapFile, tieOrder)
           total == Sum(Prob(ranked))
           rows == fs[Dest].rows
           len == Len(rows)
       IN  /\ len >= 1
           /\ rows = [n \in 1..len |-> ranked[n].UNIQ]
           /\ cumprob[len] * c.den >= c.num * total
           /\ \A m \in 1..(len - 1) : cumprob[m] * c.den < c.num * total

\* C2: a failure while one contour is processed never ends the batch: when
\* writeFiles is over, no contour behind the one that failed is left
\* unprocessed.
BatchIsolation ==
    (pc \in {"done", "aborted"}) => (k >= Len(contours))

\* C3: when writeMOC fails, the destination is absent or still holds the
\* content it had before the call.
FailureAtomicity ==
    (pc = "aborted") => (fs[Dest] = Absent \/ fs[Dest] = before)

\* C4: the correction begins only with a complete one-column container of
\* type 'K' at the destination, holding the rows of the first write; it
\* changes only the column type, and when writeMOC has written the file the
\* type is '1K' and the rows are those of the first write.
TwoPhaseWrite ==
    /\ (pc \in {"reopen", "correct"}) => (fs[Dest] = Written(skymap, "K"))
    /\ (pc = "correct") => (h = [rows |-> skymap, tform |-> "K"] /\ "h" \in handles)
    /\ (pc = "written") => (fs[Dest] = Written(skymap, "1K"))

\* C4 witness: writeMOC has corrected a container of two or more rows
TwoPhaseWriteReached ==
    /\ pc = "written"
    /\ Len(fs[Dest].rows) >= 2
    /\ fs[Dest].tform = "1K"

\* C5: with an empty map or a confidence outside (0,1], writeMOC does not get
\* past its input check and leaves the destination alone, and getContourArea
\* returns no area.
InvalidInputRejected ==
    /\ PastSearch => (skymapFile # <<>> /\ InUnitInterval(c))
    /\ PastSearch => (skymapFile = <<>> \/ ~InUnitInterval(c) => fs[Dest] = before)
    /\ area.called => (skymapFile # <<>> /\ InUnitInterval(area.c))

\* C6: when the prefix search yields i = 0, writeMOC fails and writes no
\* zero-row container.
EmptyPrefixFails ==
    /\ PastFirstWrite => i # 0
    /\ \A s \in ContourStrings : fs[s].state = "valid" => fs[s].rows # <<>>

\* a <= b for fractions of positive denominator
FracLeq(a, b) == a.num * b.den <= b.num * a.den

\* C7: the area getContourArea returns for a confidence is at most the area
\* it returns for any larger confidence and at least the area it returns for
\* any smaller one (the densities of the model are non-negative).
ConfidenceMonotonicity ==
    area.called =>
        \A s \in DOMAIN ContourValue :
            LET other == ContourArea(skymapFile, Fraction(s), tieOrder)
            IN  /\ FracLeq(area.c, Fraction(s)) => area.val <= other
                /\ FracLeq(Fraction(s), area.c) => other <= area.val

\* C7 witness: an area was returned, and a larger confidence has a strictly
\* larger area
ConfidenceMonotonicityReached ==
    /\ area.called
    /\ InUnitInterval(area.c)
    /\ area.val > 0
    /\ \E s \in DOMAIN ContourValue :
          /\ FracLeq(area.c, Fraction(s))
          /\ area.val < ContourArea(skymapFile, Fraction(s), tieOrder)

\* the cumulative mass and the prefix length writeMOC computed are those of
\* every ordering of the input rows
SameForEveryOrder ==
    \A p \in Perms(Range(skymapFile)) :
        LET prob == Prob(TableSort(p, tieOrder))
        IN  /\ CumSum(prob) = cumprob
            /\ SearchSorted(CumSum(prob), c.num * Sum(prob), c.den) = i

\* cells of equal density have equal pixel area
TiesShareArea(rows) ==
    \A a, b \in 1..Len(rows) :
        rows[a].PROBDENSITY = rows[b].PROBDENSITY
            => PixArea(rows[a].UNIQ) = PixArea(rows[b].UNIQ)

\* C8 as stated: for every map, the cumulative mass after the sort is
\* non-decreasing and the same for every initial ordering of the rows, and so
\* is the prefix length.
PermutationInvariantRanking ==
    (pc = "write") => (NonDecreasing(cumprob) /\ SameForEveryOrder)

\* C8 amended: for every map with non-negative densities in which cells of
\* equal density have equal pixel area, the cumulative mass after the sort is
\* non-decreasing and the same for every initial ordering of the rows, and so
\* is the prefix length.
PermutationInvariantRankingNoMixedTies ==
    (pc = "write" /\ TiesShareArea(skymapFile))
        => (NonDecreasing(cumprob) /\ SameForEveryOrder)

\* C8 witness: a map of two resolution orders with a tie between cells of
\* one order, which the sort reordered
PermutationInvariantRankingReached ==
    /\ pc = "write"
    /\ TiesShareArea(skymapFile)
    /\ skymap # skymapFile
    /\ \E a, b \in 1..Len(skymapFile) :
          a # b /\ skymapFile[a].PROBDENSITY = skymapFile[b].PROBDENSITY
    /\ \E a, b \in 1..Len(skymapFile) :
          PixArea(skymapFile[a].UNIQ) # PixArea(skymapFile[b].UNIQ)
    /\ InUnitInterval(c)
    /\ i >= 1

\* the contour writeMOC was last called for
LastContour == contours[k - 1]

\* C9: the area getContourArea returns for a map and a confidence is the
\* summed pixel area, in square degrees, of the rows writeMOC wrote for them,
\* and the number of rows written is writeMOC's i.
EstimatorWriterConsistency ==
    ( /\ pc = "done"
      /\ area.called
      /\ k > 1
      /\ IsFloat(LastContour)
      /\ area.c = c )
    => LET rows == fs[LastContour].rows
       IN  /\ Len(rows) = i
           /\ area.val = ToSqDeg(Sum([n \in 1..Len(rows) |-> PixArea(rows[n])]))

\* C9 witness: both ran for one confidence and two or more rows were written
EstimatorWriterConsistencyReached ==
    /\ pc = "done"
    /\ area.called
    /\ k > 1
    /\ IsFloat(LastContour)
    /\ area.c = c
    /\ InUnitInterval(c)
    /\ i >= 2
    /\ Len(fs[LastContour].rows) = i
    /\ area.val > 0

\* C10: outside writeMOC, whether it returned or raised, no file handle it
\* opened is still open.
HandleRelease ==
    (pc \in {"loop", "done", "aborted"}) => (handles = {})

====
